---- MODULE Spec2Model ----
(***************************************************************************)
(* A state-machine model of app/main.py: the six tables of the relational  *)
(* store with their uniqueness constraints, the two file areas, the signed *)
(* session of one browser, the SMS gateway's log, and one action per route *)
(* handler.  Character strings that the code converts (strip, upper,       *)
(* lower) are sequences of one-character strings, so the conversions are   *)
(* computed.                                                               *)
(***************************************************************************)
EXTENDS Integers, Sequences, FiniteSets, TLC

VARIABLES
    instructors,   \* table "instructors": set of [id, name, code]
    players,       \* table "players": set of [id, name, age, code, phone, photo_path]
    metrics,       \* table "metrics": set of [id, player_id, created_at, exit_velocity]
    notes,         \* table "notes": set of [id, player_id, instructor_id, text, shared_with_player, created_at]
    stars,         \* table "stars": set of [id, instructor_id, player_id]
    drills,        \* table "shared_drills": set of [id, player_id, instructor_id, filename, title]
    photoFiles,    \* names of the files under static/players
    drillFiles,    \* names of the files under static/drills
    session,       \* request.session of the browser: [user, flash]
    smsReady,      \* whether the three TWILIO_* settings are all set
    smsLog,        \* what the SMS gateway was asked to do: sequence of [to, body, result]
    now,           \* datetime.utcnow()
    request,       \* the last request handled (its route and form fields)
    response,      \* the response to it
    inflight,      \* /star/toggle requests between their query and their commit
    lastToggle     \* history: per instructor id, the store before and the answer of their last completed toggle

tables == <<instructors, players, metrics, notes, stars, drills>>
files == <<photoFiles, drillFiles>>
vars == <<instructors, players, metrics, notes, stars, drills, photoFiles, drillFiles,
          session, smsReady, smsLog, now, request, response, inflight, lastToggle>>

(***************************************************************************)
(* Bounds of the model.                                                    *)
(***************************************************************************)
MaxInstructors == 2
MaxPlayers == 2
MaxRows == 2
MaxSms == 1
MaxClock == 1
NumTokens == 2
NumRequests == 2
MaxStarId == 3

(***************************************************************************)
(* Strings.                                                                *)
(***************************************************************************)
\* Python's None where a string is optional
None == <<"None">>

\* truthiness of an Optional[str]
Truthy(s) == s # None /\ s # <<>>

RECURSIVE LStrip(_)
LStrip(s) == IF s # <<>> /\ Head(s) = " " THEN LStrip(Tail(s)) ELSE s

RECURSIVE RStrip(_)
RStrip(s) == IF s # <<>> /\ s[Len(s)] = " " THEN RStrip(SubSeq(s, 1, Len(s) - 1)) ELSE s

\* str.strip()
Strip(s) == RStrip(LStrip(s))

UpperChar(c) ==
    CASE c = "a" -> "A" [] c = "b" -> "B" [] c = "c" -> "C" [] c = "d" -> "D"
      [] c = "e" -> "E" [] c = "f" -> "F" [] OTHER -> c

\* str.upper()
Upper(s) == [k \in 1..Len(s) |-> UpperChar(s[k])]

LowerChar(c) ==
    CASE c = "P" -> "p" [] c = "N" -> "n" [] c = "G" -> "g" [] c = "M" -> "m" [] OTHER -> c

\* str.lower()
Lower(s) == [k \in 1..Len(s) |-> LowerChar(s[k])]

RECURSIVE LastDot(_)
LastDot(s) == IF s = <<>> THEN 0 ELSE IF s[Len(s)] = "." THEN Len(s)
              ELSE LastDot(SubSeq(s, 1, Len(s) - 1))

\* os.path.splitext(filename)[1]
SplitExt(s) == IF LastDot(s) <= 1 THEN <<>> ELSE SubSeq(s, LastDot(s), Len(s))

\* str.isdigit() of the age column, for the digits the model's files use
IsDigit(s) == s # <<>> /\ \A k \in 1..Len(s) : s[k] \in {"0", "1", "2"}

DigitVal(c) == CASE c = "0" -> 0 [] c = "1" -> 1 [] c = "2" -> 2

RECURSIVE ParseInt(_)
\* int(age_raw)
ParseInt(s) == IF s = <<>> THEN 0 ELSE 10 * ParseInt(SubSeq(s, 1, Len(s) - 1)) + DigitVal(s[Len(s)])

\* the decimal form of a small count, as the f-string prints it
CountStr(n) == <<<<"0">>, <<"1">>, <<"2">>, <<"3">>, <<"4">>, <<"5">>, <<"6">>>>[n + 1]

Range(f) == {f[k] : k \in DOMAIN f}

HexDigits == <<"a", "b", "c", "d", "e", "f">>

\* the values secrets.token_hex(3) may return: six lower-case hex digits
Token(k) == <<"0", "0", "0", "0", HexDigits[k], "9">>
token_hex3 == { Token(k) : k \in 1..NumTokens }

\* the value secrets.token_hex(8) returns for a file name
token_hex8 == { <<"0", HexDigits[6]>> }

\* os.getenv("INSTRUCTOR_MASTER_CODE", "COACH123")
master == <<"C", "O", "A", "C", "H", "1", "2", "3">>

HeadCoach == <<"H", "e", "a", "d", " ", "C", "o", "a", "c", "h">>

(***************************************************************************)
(* The store.                                                              *)
(***************************************************************************)
SetMax(S) == CHOOSE m \in S : \A x \in S : x <= m

\* the INTEGER PRIMARY KEY sqlite gives the next row of a table
NextId(table) == IF table = {} THEN 1 ELSE SetMax({r.id : r \in table}) + 1

\* the code columns without unique=True: every commit passes
CodeNotConstrained(table, added) == TRUE

\* Column(String, unique=True) of Instructor.code and Player.code: whether the table with
\* these rows added passes, or the commit raises IntegrityError
CodeUnique(table, added) ==
    /\ \A a \in Range(added) : \A r \in table : r.code # a.code
    /\ \A j, k \in 1..Len(added) : added[j].code = added[k].code => j = k

\* UniqueConstraint('instructor_id', 'player_id') of Star, likewise
StarUnique(table, new) ==
    \A r \in table : ~(r.instructor_id = new.instructor_id /\ r.player_id = new.player_id)

\* query(T).filter_by(code=code).first(): the row or the empty set
ByCode(table, code) == {r \in table : r.code = code}

\* query(T).get(id)
ById(table, id) == {r \in table : r.id = id}

\* the rows and files, besides instructors and players, which the model bounds by MaxRows
Rows == Cardinality(stars) + Cardinality(metrics) + Cardinality(notes) + Cardinality(drills)
          + Cardinality(photoFiles) + Cardinality(drillFiles)

NoUser == [type |-> "none"]
NoFlash == [type |-> "none"]

\* get_user(request)
get_user == session.user

\* the check with the principal's kind forgotten: any logged-in user passes
UnauthorizedAnonymousOnly(u) == u = NoUser

\* the check "not u or u.get('type') != 'instructor'" of every mutating handler
Unauthorized(u) == u = NoUser \/ u.type # "instructor"

\* request.session["flash"] = {"type": ..., "msg": ...}; the f-string's argument is kept apart
Flash(type, msg, arg) == [type |-> type, msg |-> msg, arg |-> arg]

\* RedirectResponse(to, status_code=303), JSONResponse(..., status_code=401),
\* a rendered template (200), or the 500 of an exception no handler catches
Resp(status) == [status |-> status]

\* the store holding these instructors and players and nothing else, and a browser that
\* made no request yet
Populated(ins, pls) ==
    /\ instructors = ins
    /\ players = pls
    /\ metrics = {}
    /\ notes = {}
    /\ stars = {}
    /\ drills = {}
    /\ photoFiles = {}
    /\ drillFiles = {}
    /\ session = [user |-> NoUser, flash |-> NoFlash]
    /\ smsReady \in BOOLEAN
    /\ smsLog = <<>>
    /\ now = 0
    /\ request = [op |-> "start"]
    /\ response = Resp(0)
    /\ inflight = [r \in 1..NumRequests |-> [pc |-> "idle"]]
    /\ lastToggle = {}

Init == Populated({}, {})

(***************************************************************************)
(* Views and logins.                                                       *)
(***************************************************************************)
\* pop_flash, which the templates may call while rendering
pop_flash(pop) == IF pop THEN [session EXCEPT !.flash = NoFlash] ELSE session

\* ensure_master that inserts nothing
ensure_master_skipped == instructors

\* the rows ensure_master leaves in the instructors table
ensure_master ==
    IF ByCode(instructors, master) = {}
    THEN instructors \cup {[id |-> NextId(instructors), name |-> HeadCoach, code |-> master]}
    ELSE instructors

\* the dashboard query with the shared_with_player filter left out
SharedNoteUnfiltered(pid) ==
    LET mine == {n \in notes : n.player_id = pid}
    IN  {n \in mine : \A m \in mine : m.created_at <= n.created_at}

\* the note the dashboard query may return: the shared notes of the player, newest
\* created_at first, first()
SharedNote(pid) ==
    LET shared == {n \in notes : n.player_id = pid /\ n.shared_with_player}
    IN  {n \in shared : \A m \in shared : m.created_at <= n.created_at}

NoNote == [id |-> 0]

\* GET /
dashboard ==
    /\ request' = [op |-> "dashboard"]
    /\ LET u == get_user
           player == IF u # NoUser /\ u.type = "player" THEN ById(players, u.id) ELSE {}
           found == UNION {SharedNote(p.id) : p \in player}
       IN  \E note \in (IF found = {} THEN {NoNote} ELSE found) :
               response' = [status |-> 200,
                            player |-> {p.id : p \in player},
                            shared_note |-> note,
                            chart_points |-> {[x |-> m.created_at, y |-> m.exit_velocity] :
                                                m \in {x \in metrics : \E p \in player :
                                                                         x.player_id = p.id}}]
    /\ \E pop \in BOOLEAN : session' = pop_flash(pop)
    /\ UNCHANGED <<tables, files, smsReady, smsLog, now, inflight, lastToggle>>

\* POST /login_player
login_player(code) ==
    /\ request' = [op |-> "login_player"]
    /\ LET p == ByCode(players, Strip(code))
       IN  IF p = {}
           THEN session' = [session EXCEPT !.flash = Flash("warn", "Invalid player code.", <<>>)]
           ELSE \E r \in p :
                  session' = [session EXCEPT !.user = [type |-> "player", id |-> r.id, name |-> r.name]]
    /\ response' = Resp(303)
    /\ UNCHANGED <<tables, files, smsReady, smsLog, now, inflight, lastToggle>>

\* GET /instructor
instructor ==
    /\ Cardinality(ensure_master) <= MaxInstructors
    /\ request' = [op |-> "instructor"]
    /\ instructors' = ensure_master
    /\ LET u == get_user
           ins == IF u # NoUser /\ u.type = "instructor" THEN ById(instructors', u.id) ELSE {}
       IN  response' = [status |-> 200,
                        instructor |-> {i.id : i \in ins},
                        starred_ids |-> {st.player_id : st \in
                                           {x \in stars : \E i \in ins : x.instructor_id = i.id}},
                        sms_ready |-> smsReady]
    /\ \E pop \in BOOLEAN : session' = pop_flash(pop)
    /\ UNCHANGED <<players, metrics, notes, stars, drills, files, smsReady, smsLog, now,
                   inflight, lastToggle>>

\* the Instructor row login_instructor builds for the master code
NewInstructor(name, tok) ==
    [id |-> NextId(instructors),
     name |-> Strip(IF Truthy(name) THEN name ELSE <<"C", "o", "a", "c", "h">>),
     code |-> Upper(tok)]

\* POST /login_instructor
login_instructor(code, name) ==
    /\ request' = [op |-> "login_instructor", code |-> code, name |-> name]
    /\ LET c == Strip(code)
           ins == ByCode(instructors, c)
       IN  IF ins # {}
           THEN /\ \E r \in ins :
                     session' = [session EXCEPT
                                   !.user = [type |-> "instructor", id |-> r.id, name |-> r.name]]
                /\ response' = Resp(303)
                /\ UNCHANGED instructors
           ELSE IF c = master /\ Truthy(name)
           THEN \E tok \in token_hex3 :
                  LET new == NewInstructor(name, tok)
                  IN  IF CodeUnique(instructors, <<new>>)
                      THEN /\ Cardinality(instructors) < MaxInstructors
                           /\ instructors' = instructors \cup {new}
                           /\ session' = [user |-> [type |-> "instructor", id |-> new.id,
                                                     name |-> new.name],
                                           flash |-> Flash("ok", "Instructor created. Your login code: ",
                                                           new.code)]
                           /\ response' = Resp(303)
                      ELSE \* s.commit() raises IntegrityError, which nothing catches
                           /\ response' = Resp(500)
                           /\ UNCHANGED <<instructors, session>>
           ELSE /\ session' = [session EXCEPT !.flash = Flash("warn", "Invalid instructor code.", <<>>)]
                /\ response' = Resp(303)
                /\ UNCHANGED instructors
    /\ UNCHANGED <<players, metrics, notes, stars, drills, files, smsReady, smsLog, now,
                   inflight, lastToggle>>

\* POST /logout
logout ==
    /\ request' = [op |-> "logout"]
    /\ session' = [user |-> NoUser, flash |-> NoFlash]
    /\ response' = Resp(303)
    /\ UNCHANGED <<tables, files, smsReady, smsLog, now, inflight, lastToggle>>

\* the clock advances between requests
Tick ==
    /\ now < MaxClock
    /\ now' = now + 1
    /\ request' = [op |-> "tick"]
    /\ UNCHANGED <<tables, files, session, smsReady, smsLog, response, inflight, lastToggle>>

(***************************************************************************)
(* Actions of an instructor.                                               *)
(***************************************************************************)
\* the Player row create_player builds; photo_path is None or the stored file's path
NewPlayer(name, age, phone, code, photo_path) ==
    [id |-> NextId(players),
     name |-> Strip(name),
     age |-> {a \in age : a # 0},
     phone |-> Strip(IF Truthy(phone) THEN phone ELSE <<>>),
     code |-> code,
     photo_path |-> photo_path]

\* POST /players/create
create_player(name, age, phone, photo) ==
    /\ request' = [op |-> "create_player"]
    /\ IF Unauthorized(get_user)
       THEN /\ response' = Resp(401)
            /\ UNCHANGED <<players, photoFiles, session>>
       ELSE \E tok \in token_hex3, ftok \in token_hex8 :
              LET code == Upper(tok)
                  ext == IF Lower(SplitExt(photo)) # <<>> THEN Lower(SplitExt(photo))
                         ELSE <<".", "j", "p", "g">>
                  fname == <<"p", "_">> \o ftok \o ext
                  p == NewPlayer(name, age, phone, code,
                                 IF Truthy(photo) THEN <<"/static/players/">> \o fname ELSE None)
              IN  /\ photoFiles' = IF Truthy(photo) THEN photoFiles \cup {fname} ELSE photoFiles
                  /\ photoFiles' # photoFiles => Rows < MaxRows
                  /\ IF CodeUnique(players, <<p>>)
                     THEN /\ Cardinality(players) < MaxPlayers
                          /\ players' = players \cup {p}
                          /\ session' = [session EXCEPT
                                           !.flash = Flash("ok", "Player created. Login code: ", p.code)]
                          /\ response' = Resp(303)
                     ELSE \* s.commit() raises IntegrityError, which nothing catches
                          /\ response' = Resp(500)
                          /\ UNCHANGED <<players, session>>
    /\ UNCHANGED <<instructors, metrics, notes, stars, drills, drillFiles, smsReady, smsLog, now,
                   inflight, lastToggle>>

\* the Player rows bulk_csv adds for the rows of the file, codes[k] being the code drawn for row k
RECURSIVE BulkRows(_, _, _)
BulkRows(rows, codes, id) ==
    IF rows = <<>> THEN <<>>
    ELSE LET row == Head(rows)
             name == Strip(row.name)
         IN  IF name = <<>>
             THEN BulkRows(Tail(rows), Tail(codes), id)
             ELSE <<[id |-> id,
                     name |-> name,
                     age |-> IF IsDigit(Strip(row.age)) THEN {ParseInt(Strip(row.age))} ELSE {},
                     phone |-> Strip(row.phone),
                     code |-> Upper(Head(codes)),
                     photo_path |-> None]>>
                  \o BulkRows(Tail(rows), Tail(codes), id + 1)

\* POST /players/bulk_csv
bulk_csv(rows) ==
    /\ request' = [op |-> "bulk_csv"]
    /\ IF Unauthorized(get_user)
       THEN /\ response' = Resp(401)
            /\ UNCHANGED <<players, session>>
       ELSE \E codes \in [1..Len(rows) -> token_hex3] :
              LET added == BulkRows(rows, codes, NextId(players))
              IN  IF CodeUnique(players, added)
                  THEN /\ Cardinality(players) + Len(added) <= MaxPlayers
                       /\ players' = players \cup Range(added)
                       /\ session' = [session EXCEPT
                                        !.flash = Flash("ok", "Imported players: ",
                                                        CountStr(Len(added)))]
                       /\ response' = Resp(303)
                  ELSE \* s.commit() raises IntegrityError, which nothing catches
                       /\ response' = Resp(500)
                       /\ UNCHANGED <<players, session>>
    /\ UNCHANGED <<instructors, metrics, notes, stars, drills, files, smsReady, smsLog, now,
                   inflight, lastToggle>>

\* POST /metrics/add
add_metric(player_id, exit_velocity) ==
    /\ request' = [op |-> "add_metric"]
    /\ IF Unauthorized(get_user)
       THEN /\ response' = Resp(401)
            /\ UNCHANGED metrics
       ELSE /\ Rows < MaxRows
            /\ metrics' = metrics \cup {[id |-> NextId(metrics), player_id |-> player_id,
                                         created_at |-> now, exit_velocity |-> exit_velocity]}
            /\ response' = Resp(303)
    /\ UNCHANGED <<instructors, players, notes, stars, drills, files, session, smsReady, smsLog,
                   now, inflight, lastToggle>>

\* POST /notes/add
add_note(player_id, text, share_with_player) ==
    /\ request' = [op |-> "add_note"]
    /\ IF Unauthorized(get_user)
       THEN /\ response' = Resp(401)
            /\ UNCHANGED <<notes, session>>
       ELSE /\ Rows < MaxRows
            /\ notes' = notes \cup {[id |-> NextId(notes), player_id |-> player_id,
                                     instructor_id |-> get_user.id, text |-> Strip(text),
                                     shared_with_player |-> share_with_player,
                                     created_at |-> now]}
            /\ session' = [session EXCEPT !.flash = Flash("ok", "Note saved.", <<>>)]
            /\ response' = Resp(303)
    /\ UNCHANGED <<instructors, players, metrics, stars, drills, files, smsReady, smsLog, now,
                   inflight, lastToggle>>

\* query(Star).filter_by(instructor_id=uid, player_id=player_id).first()
StarQuery(uid, player_id) ==
    {st \in stars : st.instructor_id = uid /\ st.player_id = player_id}

\* query(Star).filter_by(instructor_id=uid).count() over a stars table
StarCount(table, uid) == Cardinality({st \in table : st.instructor_id = uid})

\* toggle_star with the delete of an existing star left out
ToggleCommitKeepsStar(uid, player_id, ex) ==
    IF ex # {}
    THEN [stars |-> stars, error |-> FALSE, active |-> FALSE]
    ELSE [stars |-> stars \cup {[id |-> NextId(stars), instructor_id |-> uid,
                                 player_id |-> player_id]},
          error |-> FALSE, active |-> TRUE]

\* what toggle_star does after its query returned ex: the stars table it leaves, whether
\* its commit raised IntegrityError, and the active flag.  A row is deleted by its
\* primary key; deleting a row that is gone matches nothing and only warns.
ToggleCommit(uid, player_id, ex) ==
    IF ex # {}
    THEN [stars |-> {st \in stars : \A e \in ex : st.id # e.id}, error |-> FALSE,
          active |-> FALSE]
    ELSE LET new == [id |-> NextId(stars), instructor_id |-> uid, player_id |-> player_id]
         IN  IF StarUnique(stars, new)
             THEN [stars |-> stars \cup {new}, error |-> FALSE, active |-> TRUE]
             ELSE [stars |-> stars, error |-> TRUE, active |-> FALSE]

\* JSONResponse({"ok": True, "active": active, "count": count})
ToggleResponse(active, count) == [status |-> 200, active |-> active, count |-> count]

\* POST /star/toggle, run from its query to its response with no other request in between
toggle_star(player_id) ==
    /\ request' = [op |-> "toggle_star", player_id |-> player_id]
    /\ IF Unauthorized(get_user)
       THEN /\ response' = Resp(401)
            /\ UNCHANGED <<stars, lastToggle>>
       ELSE LET uid == get_user.id
                ex == StarQuery(uid, player_id)
                done == ToggleCommit(uid, player_id, ex)
            IN  IF done.error
                THEN /\ response' = Resp(500)
                     /\ UNCHANGED <<stars, lastToggle>>
                ELSE /\ done.active => (Rows < MaxRows /\ NextId(stars) <= MaxStarId)
                     /\ stars' = done.stars
                     /\ response' = ToggleResponse(done.active, StarCount(stars', uid))
                     /\ lastToggle' = {t \in lastToggle : t.uid # uid} \cup
                                        {[uid |-> uid, player_id |-> player_id,
                                          had |-> ex # {}, count |-> StarCount(stars, uid)]}
    /\ UNCHANGED <<instructors, players, metrics, notes, drills, files, session, smsReady,
                   smsLog, now, inflight>>

\* POST /star/toggle, first half: the session check and the query
toggle_star_query(r, player_id) ==
    /\ inflight[r].pc = "idle"
    /\ request' = [op |-> "toggle_star_query"]
    /\ IF Unauthorized(get_user)
       THEN /\ response' = Resp(401)
            /\ UNCHANGED inflight
       ELSE /\ inflight' = [inflight EXCEPT ![r] = [pc |-> "queried", uid |-> get_user.id,
                                                    player_id |-> player_id,
                                                    ex |-> StarQuery(get_user.id, player_id)]]
            /\ UNCHANGED response
    /\ UNCHANGED <<tables, files, session, smsReady, smsLog, now, lastToggle>>

\* POST /star/toggle, second half: the delete or the insert, the commit, the count, the response
toggle_star_commit(r) ==
    /\ inflight[r].pc = "queried"
    /\ request' = [op |-> "toggle_star", player_id |-> inflight[r].player_id]
    /\ LET done == ToggleCommit(inflight[r].uid, inflight[r].player_id, inflight[r].ex)
       IN  IF done.error
           THEN /\ response' = Resp(500)
                /\ UNCHANGED stars
           ELSE /\ done.active => (Rows < MaxRows /\ NextId(stars) <= MaxStarId)
                /\ stars' = done.stars
                /\ response' = ToggleResponse(done.active, StarCount(stars', inflight[r].uid))
    /\ inflight' = [inflight EXCEPT ![r] = [pc |-> "idle"]]
    /\ UNCHANGED <<instructors, players, metrics, notes, drills, files, session, smsReady,
                   smsLog, now, lastToggle>>

\* POST /drills/upload
upload_drill(filename) ==
    /\ request' = [op |-> "upload_drill"]
    /\ IF Unauthorized(get_user)
       THEN /\ response' = Resp(401)
            /\ UNCHANGED drillFiles
       ELSE \E ftok \in token_hex8 :
              LET fname == <<"d", "r", "i", "l", "l", "_">> \o ftok \o Lower(SplitExt(filename))
              IN  /\ fname \notin drillFiles => Rows < MaxRows
                  /\ drillFiles' = drillFiles \cup {fname}
                  /\ response' = Resp(303)
    /\ UNCHANGED <<tables, photoFiles, session, smsReady, smsLog, now, inflight, lastToggle>>

\* Client(sid, tok).messages.create(body=..., from_=frm, to=...): the gateway accepts the
\* message (ok) or raises
GatewaySend(to, body, ok) == Append(smsLog, [to |-> to, body |-> body, ok |-> ok])

\* send_drill without the try around the gateway call: what the gateway raises ends the request
SendDrillResponseUncaught(ok) == IF ok THEN Resp(303) ELSE Resp(500)

\* what send_drill answers after the gateway call: the try swallows what the gateway raised
SendDrillResponse(ok) == Resp(303)

\* POST /drills/send
send_drill(player_id, filename, title, text_also) ==
    /\ request' = [op |-> "send_drill", text_also |-> text_also]
    /\ IF Unauthorized(get_user)
       THEN /\ response' = Resp(401)
            /\ UNCHANGED <<drills, smsLog, session>>
       ELSE /\ Rows < MaxRows
            /\ drills' = drills \cup {[id |-> NextId(drills), player_id |-> player_id,
                                       instructor_id |-> get_user.id, filename |-> filename,
                                       title |-> title]}
            /\ LET pl == ById(players, player_id)
               IN  IF text_also /\ smsReady /\ \E p \in pl : Truthy(p.phone)
                   THEN \E p \in pl, ok \in BOOLEAN :
                          /\ Len(smsLog) < MaxSms
                          /\ smsLog' = GatewaySend(p.phone,
                                                   <<"Coach shared a drill: ">> \o
                                                     (IF Truthy(title) THEN title ELSE filename),
                                                   ok)
                          /\ response' = SendDrillResponse(ok)
                          /\ session' = IF response'.status = 303
                                        THEN [session EXCEPT
                                                !.flash = Flash("ok", "Drill shared with player.", <<>>)]
                                        ELSE session
                   ELSE /\ UNCHANGED smsLog
                        /\ session' = [session EXCEPT
                                         !.flash = Flash("ok", "Drill shared with player.", <<>>)]
                        /\ response' = Resp(303)
    /\ UNCHANGED <<instructors, players, metrics, notes, stars, files, smsReady, now, inflight,
                   lastToggle>>

\* POST /text/send
text_player(player_id, body) ==
    /\ request' = [op |-> "text_player"]
    /\ LET pl == ById(players, player_id)
       IN  IF ~smsReady
           THEN /\ session' = [session EXCEPT !.flash = Flash("warn", "Twilio not configured.", <<>>)]
                /\ UNCHANGED smsLog
           ELSE IF ~ \E p \in pl : Truthy(p.phone)
           THEN /\ session' = [session EXCEPT !.flash = Flash("warn", "Player phone missing.", <<>>)]
                /\ UNCHANGED smsLog
           ELSE \E p \in pl, ok \in BOOLEAN :
                  /\ Len(smsLog) < MaxSms
                  /\ smsLog' = GatewaySend(p.phone, body, ok)
                  /\ session' = [session EXCEPT
                                   !.flash = IF ok THEN Flash("ok", "Text sent.", <<>>)
                                             ELSE Flash("warn", "Text failed: ", <<"e">>)]
    /\ response' = Resp(303)
    /\ UNCHANGED <<tables, files, smsReady, now, inflight, lastToggle>>

(***************************************************************************)
(* The inputs the requests draw from.                                      *)
(***************************************************************************)
Names == {<<" ", "S", " ">>}
LoginNames == Names \cup {None}
MasterCode == <<" ">> \o master
LoginCodes == {Upper(t) : t \in token_hex3} \cup {MasterCode}
Ages == {{}, {0}}
Phones == {None, <<"5">>}
Photos == {None, <<"a", ".", "P", "N", "G">>}
CsvRow(name, age) == [name |-> name, age |-> age, phone |-> <<>>]
CsvFiles == {<<>>, <<CsvRow(<<" ">>, <<>>), CsvRow(<<"S", " ">>, <<"x">>)>>,
             <<CsvRow(<<"S">>, <<>>), CsvRow(<<"S">>, <<"1", "2", " ">>)>>}
Filenames == {<<"d", ".", "M", "P", "4">>}
Titles == {None, <<"T">>}
Texts == {<<"t", " ">>}
Players == 1..MaxPlayers

\* every request runs from start to end before the next one starts
Next ==
    \/ dashboard
    \/ instructor
    \/ \E code \in LoginCodes : login_player(code)
    \/ \E code \in LoginCodes, name \in LoginNames : login_instructor(code, name)
    \/ logout
    \/ \E name \in Names, age \in Ages, phone \in Phones, photo \in Photos :
         create_player(name, age, phone, photo)
    \/ \E rows \in CsvFiles : bulk_csv(rows)
    \/ \E player_id \in Players : add_metric(player_id, 72)
    \/ \E player_id \in Players, text \in Texts, share \in BOOLEAN :
         add_note(player_id, text, share)
    \/ \E player_id \in Players : toggle_star(player_id)
    \/ \E filename \in Filenames : upload_drill(filename)
    \/ \E player_id \in Players, filename \in Filenames, title \in Titles, text_also \in BOOLEAN :
         send_drill(player_id, filename, title, text_also)
    \/ \E player_id \in Players, body \in Texts : text_player(player_id, body)
    \/ Tick

Spec == Init /\ [][Next]_vars

(***************************************************************************)
(* The same handlers, a part of the routes at a time, from stores that the *)
(* account routes have filled.                                             *)
(***************************************************************************)
\* the row ensure_master inserts
HeadCoachRow(id) == [id |-> id, name |-> HeadCoach, code |-> master]

\* the row login_instructor inserts for the name " S " when token_hex(3) returns Token(k)
CoachRow(id, k) == [id |-> id, name |-> <<"S">>, code |-> Upper(Token(k))]

\* the row create_player inserts for the name " S " when token_hex(3) returns Token(k)
PlayerRow(id, k, phone) ==
    [id |-> id, name |-> <<"S">>, age |-> {}, phone |-> phone, code |-> Upper(Token(k)),
     photo_path |-> None]

HeadCoachLogin == login_instructor(MasterCode, None)

\* accounts: instructors and players are created
NextAccounts ==
    \/ instructor
    \/ \E name \in LoginNames : login_instructor(MasterCode, name)
    \/ logout
    \/ \E name \in Names : create_player(name, {}, None, None)
    \/ \E rows \in CsvFiles : bulk_csv(rows)

SpecAccounts == Init /\ [][NextAccounts]_vars

\* stars: two instructors star and unstar two players
InitStars == Populated({CoachRow(1, 1), HeadCoachRow(2)}, {})

NextStars ==
    \/ \E code \in {Upper(Token(1)), MasterCode} : login_instructor(code, None)
    \/ logout
    \/ \E player_id \in {1, 2} : toggle_star(player_id)

SpecStars == InitStars /\ [][NextStars]_vars

\* stars, with overlapping requests of the Head Coach
InitRace == Populated({HeadCoachRow(1)}, {})

NextRace ==
    \/ HeadCoachLogin
    \/ logout
    \/ \E r \in 1..NumRequests, player_id \in {1, 2} : toggle_star_query(r, player_id)
    \/ \E r \in 1..NumRequests : toggle_star_commit(r)

SpecRace == InitRace /\ [][NextRace]_vars

\* notes: the Head Coach writes notes on two players, who look at their dashboards
InitNotes == Populated({HeadCoachRow(1)}, {PlayerRow(1, 1, <<>>), PlayerRow(2, 2, <<>>)})

NextNotes ==
    \/ HeadCoachLogin
    \/ \E k \in {1, 2} : login_player(Upper(Token(k)))
    \/ \E player_id \in {1, 2}, text \in Texts, share \in BOOLEAN :
         add_note(player_id, text, share)
    \/ dashboard
    \/ Tick

SpecNotes == InitNotes /\ [][NextNotes]_vars

\* drills and texts: one player has a phone, the other has none
InitSms == Populated({HeadCoachRow(1)}, {PlayerRow(1, 1, <<"5">>), PlayerRow(2, 2, <<>>)})

NextSms ==
    \/ HeadCoachLogin
    \/ login_player(Upper(Token(1)))
    \/ logout
    \/ \E player_id \in {1, 2}, filename \in Filenames, title \in Titles, text_also \in BOOLEAN :
         send_drill(player_id, filename, title, text_also)
    \/ \E player_id \in {1, 2}, body \in Texts : text_player(player_id, body)

SpecSms == InitSms /\ [][NextSms]_vars

\* the seven routes that change the store, from every kind of session
InitAuth == Populated({HeadCoachRow(1)}, {PlayerRow(1, 1, <<>>)})

NextAuth ==
    \/ HeadCoachLogin
    \/ login_player(Upper(Token(1)))
    \/ logout
    \/ \E name \in Names, photo \in Photos : create_player(name, {}, None, photo)
    \/ \E rows \in CsvFiles : bulk_csv(rows)
    \/ add_metric(1, 72)
    \/ \E text \in Texts : add_note(1, text, TRUE)
    \/ toggle_star(1)
    \/ \E filename \in Filenames : upload_drill(filename)
    \/ \E filename \in Filenames : send_drill(1, filename, None, TRUE)

SpecAuth == InitAuth /\ [][NextAuth]_vars

(***************************************************************************)
(* Properties.                                                             *)
(***************************************************************************)
MutatingOps == {"create_player", "bulk_csv", "add_metric", "add_note", "toggle_star",
                "upload_drill", "send_drill"}

IsInstructorSession == session.user # NoUser /\ session.user.type = "instructor"
IsPlayerSession == session.user # NoUser /\ session.user.type = "player"

\* C1: a request to CreatePlayer, BulkImportPlayers, RecordMetric, AddNote, ToggleStar,
\* UploadDrillAsset or ShareDrill whose session holds no user, or a user that is not an
\* instructor, is answered 401 Unauthorized and leaves the six tables and both file areas
\* as they were.
C1_UnauthorizedChangesNothing ==
    [][(request'.op \in MutatingOps /\ ~IsInstructorSession)
         => (response'.status = 401 /\ tables' = tables /\ files' = files)]_vars

\* a Player session was refused a mutating request while the store held rows
C1_Witness ==
    /\ request.op \in MutatingOps
    /\ IsPlayerSession
    /\ response.status = 401
    /\ players # {}
    /\ Rows > 0

\* C2: no two Player rows have the same code and no two Instructor rows have the same code.
C2_CodesUnique ==
    /\ \A p1, p2 \in players : p1.code = p2.code => p1 = p2
    /\ \A i1, i2 \in instructors : i1.code = i2.code => i1 = i2

\* two players and two instructors are stored, and a commit with a stored code was refused
C2_Witness ==
    /\ Cardinality(players) = 2
    /\ Cardinality(instructors) = 2
    /\ response.status = 500

\* C3: a generated code that collides with a stored one is retried, so CreatePlayer,
\* BulkImportPlayers and LoginInstructor never end in an unhandled failure.
C3_CollisionIsRetried ==
    request.op \in {"create_player", "bulk_csv", "login_instructor"} => response.status # 500

\* C4: the second of two successive ToggleStar calls of an instructor for the same player
\* puts the star of the pair and the instructor's star count back to what they were before
\* the first; the first call answers the negation of the original active flag and the
\* second the original flag (from no star: active, 1, then not active, 0).
C4_ToggleStarInvolution ==
    [][(request'.op = "toggle_star" /\ response'.status = 200)
         => LET i == session.user.id
                p == request'.player_id
                had == \E st \in stars : st.instructor_id = i /\ st.player_id = p
                has == \E st \in stars' : st.instructor_id = i /\ st.player_id = p
            IN  /\ response'.active = ~had
                /\ (~had /\ StarCount(stars, i) = 0) => response' = ToggleResponse(TRUE, 1)
                /\ \A t \in lastToggle :
                     (t.uid = i /\ t.player_id = p)
                       => /\ has = t.had
                          /\ StarCount(stars', i) = t.count
                          /\ response'.active = t.had
                          /\ response'.count = t.count]_vars

\* the second call of the scenario was answered: the star set by the first call is gone
C4_Witness ==
    /\ request.op = "toggle_star"
    /\ response = ToggleResponse(FALSE, 0)
    /\ \E t \in lastToggle : t.uid = session.user.id /\ t.had /\ t.count = 1
    /\ \A st \in stars : st.instructor_id # session.user.id
    /\ stars # {}

\* C5: when two ToggleStar requests for the same pair both read "no star" before either
\* inserts, the store holds at most one Star row for the pair and the request that loses
\* the insert completes with a normal response.
C5_StarRaceLoserIsNoOp ==
    /\ \A s1, s2 \in stars :
         (s1.instructor_id = s2.instructor_id /\ s1.player_id = s2.player_id) => s1 = s2
    /\ request.op = "toggle_star" => response.status = 200

\* C6: the note on a logged-in player's dashboard is none, or a note of that player that is
\* shared with the player; when the player has a shared note, the one shown is the one
\* created last.
C6_DashboardShowsLatestSharedNote ==
    (request.op = "dashboard" /\ IsPlayerSession)
      => LET shown == response.shared_note
             mine == {n \in notes : n.player_id = session.user.id /\ n.shared_with_player}
         IN  IF mine = {} THEN shown = NoNote
             ELSE /\ shown \in mine
                  /\ \A m \in mine : m.created_at <= shown.created_at

\* the dashboard shows the player's shared note while a newer note of the player is not shared
C6_Witness ==
    /\ request.op = "dashboard"
    /\ IsPlayerSession
    /\ response.shared_note # NoNote
    /\ \E m \in notes : /\ m.player_id = session.user.id
                        /\ ~m.shared_with_player
                        /\ m.created_at > response.shared_note.created_at

\* C7: LoginInstructor with the master code and a name, when no instructor has the master
\* code, inserts exactly one instructor with that name and a fresh code that is not the
\* master code, flashes that code and binds the session to the new instructor.
C7_MasterCodeProvisions ==
    [][(/\ request'.op = "login_instructor"
        /\ Strip(request'.code) = master
        /\ Truthy(request'.name)
        /\ ByCode(instructors, master) = {})
         => \E new \in instructors' :
              /\ new \notin instructors
              /\ instructors' = instructors \cup {new}
              /\ new.name = Strip(request'.name)
              /\ new.code # master
              /\ session'.flash.type = "ok" /\ session'.flash.arg = new.code
              /\ session'.user = [type |-> "instructor", id |-> new.id, name |-> new.name]]_vars

\* C8: SendText hands a message to the SMS gateway only when the session is an instructor's.
C8_TextOnlyByInstructor ==
    [][(/\ request'.op = "text_player"
        /\ Len(smsLog') > Len(smsLog)
        /\ smsLog'[Len(smsLog')].ok)
         => IsInstructorSession]_vars

\* C9: ShareDrill by an instructor with alsoText set appends exactly one SharedDrill row and
\* completes successfully, whatever the SMS gateway does.
C9_ShareDrillSurvivesGateway ==
    [][(request'.op = "send_drill" /\ request'.text_also /\ IsInstructorSession)
         => /\ \E row \in drills' : row \notin drills /\ drills' = drills \cup {row}
            /\ response'.status = 303]_vars

\* a drill was shared, the gateway refused the text, and the request was answered normally
C9_Witness ==
    /\ request.op = "send_drill"
    /\ request.text_also
    /\ response.status = 303
    /\ drills # {}
    /\ smsLog # <<>>
    /\ smsLog[Len(smsLog)].body[1] = "Coach shared a drill: "
    /\ ~smsLog[Len(smsLog)].ok

\* C10: viewing the instructor workspace leaves an instructor with the master code in the
\* store, with or without a session; that row stays, and LoginInstructor with the master
\* code then adds no instructor and binds the session to that row, with or without a name.
C10_MasterRowAfterView ==
    [][/\ request'.op = "instructor" => ByCode(instructors', master) # {}
       /\ ByCode(instructors, master) # {}
            => ByCode(instructors', master) = ByCode(instructors, master)
       /\ (/\ request'.op = "login_instructor"
           /\ Strip(request'.code) = master
           /\ ByCode(instructors, master) # {})
            => /\ instructors' = instructors
               /\ response'.status = 303
               /\ \E r \in ByCode(instructors, master) :
                    session'.user = [type |-> "instructor", id |-> r.id, name |-> r.name]]_vars

\* after a view, a login with the master code and a name was bound to the Head Coach row
C10_Witness ==
    /\ request.op = "login_instructor"
    /\ Strip(request.code) = master
    /\ Truthy(request.name)
    /\ IsInstructorSession
    /\ session.user.name = HeadCoach
    /\ \A i \in instructors : i.code = master

====
